---- MODULE Spec2Model ----
(***************************************************************************)
(* Model of intent-parser-server.py: a ThreadingTCPServer whose handlers   *)
(* (one thread per connection) decode one legacy or framed message, train  *)
(* or query the shared Adapt engine under server.engine_lock, and answer.  *)
(*                                                                         *)
(* Byte strings and Python str values are sequences of byte / code point   *)
(* values (97 is "a", 124 is "|", 44 is ",", 58 is ":", 32 is " ").         *)
(***************************************************************************)
EXTENDS Integers, Sequences, FiniteSets

\* ------------------------------------------------------------- bounds

\* Handler threads that run at the same time.
NumHandlers == 2

\* Connections the listener accepts in one run.
MaxConns == 3

Handlers == 1..NumHandlers

\* ------------------------------------------------------ byte strings

RECURSIVE Utf8Decode(_)
\* bytes.decode(): the code points of a UTF-8 byte string, or <<-1>> when
\* decoding raises UnicodeDecodeError (a ValueError).  One- and two-byte
\* sequences are decoded; a lead byte of a longer sequence is an error here
\* (no input of the model holds a complete longer sequence).
Utf8Decode(bs) ==
    IF bs = <<>> THEN <<>>
    ELSE IF bs[1] < 128
         THEN LET rest == Utf8Decode(Tail(bs))
              IN  IF rest = <<-1>> THEN <<-1>> ELSE <<bs[1]>> \o rest
         ELSE IF bs[1] >= 194 /\ bs[1] <= 223 /\ Len(bs) >= 2
                 /\ bs[2] >= 128 /\ bs[2] <= 191
              THEN LET rest == Utf8Decode(Tail(Tail(bs)))
                   IN  IF rest = <<-1>> THEN <<-1>>
                       ELSE <<(bs[1] - 192) * 64 + (bs[2] - 128)>> \o rest
              ELSE <<-1>>

DecodeError == <<-1>>

RECURSIVE SplitFrom(_, _, _)
\* str.split(sep) for a one-character separator: cur is the part being read.
SplitFrom(s, sep, cur) ==
    IF s = <<>> THEN <<cur>>
    ELSE IF s[1] = sep THEN <<cur>> \o SplitFrom(Tail(s), sep, <<>>)
         ELSE SplitFrom(Tail(s), sep, Append(cur, s[1]))

Split(s, sep) == SplitFrom(s, sep, <<>>)

\* message[2:]
From3(s) == IF Len(s) <= 2 THEN <<>> ELSE SubSeq(s, 3, Len(s))

\* struct.unpack('>I', b)[0] for a 4-byte string.
Unpack(b) == b[1] * 16777216 + b[2] * 65536 + b[3] * 256 + b[4]

Range(s) == {s[i] : i \in DOMAIN s}

\* ------------------------------------------------- decoded messages

\* A JSON array of strings, or a value a for loop cannot iterate (iter = FALSE).
NoList == [iter |-> FALSE, items |-> <<>>]
List(items) == [iter |-> TRUE, items |-> items]

\* The "data" value of a message.  kind is its JSON type; has is the set of
\* keys k among keywords/types/locations for which Python's "k in data" is
\* true; text is the value of a string.
Data(kind, has, text, kw, ty, loc) ==
    [kind |-> kind, has |-> has, text |-> text,
     keywords |-> kw, types |-> ty, locations |-> loc]

NoData == Data("null", {}, <<>>, NoList, NoList, NoList)
TrainData(kw, ty, loc) ==
    Data("obj", {"keywords", "types", "locations"}, <<>>, kw, ty, loc)
QueryData(text) == Data("str", {}, text, NoList, NoList, NoList)

\* A decoded message.  kind is its JSON type ("none" before any is decoded);
\* has is the set of keys k among command/data for which "k in message" is
\* true.
Msg(kind, has, command, data) ==
    [kind |-> kind, has |-> has, command |-> command, data |-> data]

NoMsg == Msg("none", {}, "", NoData)

\* ------------------------------------------------------ what peers send

\* The first two bytes of a connection: "t:", "q:", the high half of a small
\* length, the high half of a length that reads as the printable "ab", and the
\* high half of the length 8388608 + n, which is not valid UTF-8.
Prefixes == { <<116, 58>>, <<113, 58>>, <<0, 0>>, <<97, 98>>, <<0, 128>> }

\* A framed payload: its length in bytes, whether json.loads accepts it, and
\* the value json.loads returns.
Payload(size, valid, value) == [size |-> size, valid |-> valid, value |-> value]

STR_a == <<97>>
STR_b == <<98>>
STR_p == <<112>>
STR_q == <<113>>
STR_x == <<120>>
\* "a p"
STR_a_p == <<97, 32, 112>>

Command(command, data) == Msg("obj", {"command", "data"}, command, data)

FramedPayloads ==
    { \* {                                       (not JSON)
      Payload(1, FALSE, NoMsg),
      \* 5
      Payload(1, TRUE, Msg("num", {}, "", NoData)),
      \* {}
      Payload(2, TRUE, Msg("obj", {}, "", NoData)),
      \* {"command":"train","data":{"keywords":["a"],"types":["x"],"locations":["p"]}}
      Payload(77, TRUE, Command("train",
          TrainData(List(<<STR_a>>), List(<<STR_x>>), List(<<STR_p>>)))),
      \* {"command":"train","data":{"keywords":["b"],"types":["x"],"locations":["q"]}}
      Payload(77, TRUE, Command("train",
          TrainData(List(<<STR_b>>), List(<<STR_x>>), List(<<STR_q>>)))),
      \* {"command":"train","data":{"keywords":["a"],"types":5,"locations":["p"]}}
      Payload(73, TRUE, Command("train",
          TrainData(List(<<STR_a>>), NoList, List(<<STR_p>>)))),
      \* {"command":"train","data":{}}
      Payload(29, TRUE, Command("train",
          Data("obj", {}, <<>>, NoList, NoList, NoList))),
      \* {"command":"stop","data":5}
      Payload(27, TRUE, Command("stop",
          Data("num", {}, <<>>, NoList, NoList, NoList))),
      \* {"command":"query","data":"a p"}
      Payload(32, TRUE, Command("query", QueryData(STR_a_p))),
      \* {"command":"query","data":5}
      Payload(28, TRUE, Command("query",
          Data("num", {}, <<>>, NoList, NoList, NoList))) }

\* The low half of the length prefix a framed peer sends after the high half
\* hi: the length of one of the payloads, or (after "ab") two zero bytes.
LoBytes(hi) ==
    IF hi = <<0, 0>>
    THEN { <<p.size \div 256, p.size % 256>> : p \in FramedPayloads }
    ELSE { <<0, 0>> }

\* What a legacy peer sends after its first two bytes.  After "t:": "a|x|p",
\* "a|p" and nothing.  After "q:": "a p" and a byte that is not UTF-8.
LegacyBodies(first) ==
    IF first = <<116, 58>>
    THEN { <<97, 124, 120, 124, 112>>, <<97, 124, 112>>, <<>> }
    ELSE { STR_a_p, <<255>> }

\* ------------------------------------------------------------ engine

\* server.engine before any train call.
None == [made |-> FALSE, ents |-> {}, parsers |-> {}]

\* IntentDeterminationEngine(): no entity, no intent parser.
EmptyEngine == [made |-> TRUE, ents |-> {}, parsers |-> {}]

\* engine.register_entity(v, type) for every v of items.
RegisterAll(eng, items, type) ==
    [eng EXCEPT !.ents = @ \cup {<<items[i], type>> : i \in DOMAIN items}]

\* IntentBuilder('Intent').require('Keyword').optionally('Type')
\*     .require('Location').build()
Intent ==
    [name |-> "Intent", require |-> {"Keyword", "Location"},
     optionally |-> {"Type"}]

\* engine.register_intent_parser(intent)
RegisterIntent(eng, intent) == [eng EXCEPT !.parsers = @ \cup {intent}]

\* The model a train call builds when it runs to completion.
BuiltModel(d) ==
    RegisterIntent(
        RegisterAll(
            RegisterAll(
                RegisterAll(EmptyEngine, d.keywords.items, "Keyword"),
                d.types.items, "Type"),
            d.locations.items, "Location"),
        Intent)

\* The words of a query text.
Tokens(text) == Range(Split(text, 32)) \ {<<>>}

\* The entity types the engine tags in a text.
Tagged(eng, text) == {e[2] : e \in {x \in eng.ents : x[1] \in Tokens(text)}}

NoResult == [intent_type |-> "", confidence |-> 0]

\* engine.determine_intent(text): the candidates, best first.  A parser
\* yields a candidate when every required entity type is tagged; its
\* confidence is the share (in percent) of the words that are tagged.
DetermineIntent(eng, text) ==
    LET hit == {p \in eng.parsers : p.require \subseteq Tagged(eng, text)}
        tagged == {w \in Tokens(text) : \E e \in eng.ents : e[1] = w}
    IN  IF hit = {} THEN <<>>
        ELSE <<[intent_type |-> (CHOOSE p \in hit : TRUE).name,
                confidence |-> (100 * Cardinality(tagged))
                                  \div Cardinality(Tokens(text))]>>

\* A loop that takes the first candidate whatever its confidence.
FirstPositive_Head(cands) == IF cands = <<>> THEN NoResult ELSE cands[1]

RECURSIVE FirstPositive(_)
\* The loop of query(): the first candidate whose confidence is > 0, or None.
FirstPositive(cands) ==
    IF cands = <<>> THEN NoResult
    ELSE IF cands[1].confidence > 0 THEN cands[1]
         ELSE FirstPositive(Tail(cands))

\* The longest sequence of candidates the loop of query() is given.
MaxCands == 3

\* intent.get('confidence'), in percent.
Confidences == {-50, 0, 50, 100}

\* The sequences determine_intent may yield, in any order of confidence.
RankedSeqs ==
    UNION {[1..n -> [intent_type : {"Intent"}, confidence : Confidences]] :
             n \in 0..MaxCands}

\* --------------------------------------------------------- responses

\* What sendall writes: a JSON status envelope, a bare text or a bare result.
Response(envelope, status, error, text, data) ==
    [envelope |-> envelope, status |-> status, error |-> error,
     text |-> text, data |-> data]

\* send_error(error)
ErrorResponse(error) == Response(TRUE, "error", error, "", NoResult)

\* send_success(data): data = NoResult is Python's None, no "data" field.
SuccessResponse(data) == Response(TRUE, "success", "", "", data)

\* '1'.encode('utf-8') and '-1'.encode('utf-8')
LegacyText(text) == Response(FALSE, "", "", text, NoResult)

\* json.dumps(result).encode('utf-8')
LegacyResult(data) == Response(FALSE, "", "", "", data)

NotTrainedError == "Intent parser was not trained."
NoMatchError == "Failed to parse command."

\* -------------------------------------------------------------- state

VARIABLES
    engine,        \* server.engine
    engine_lock,   \* server.engine_lock: 0 when free, else the handler holding it
    accepted,      \* connections accepted so far
    pc,            \* where each handler thread stands
    legacy_mode,   \* handle(): legacy_mode
    initial,       \* handle(): initial, the first two bytes
    length,        \* handle(): length
    message,       \* handle(): message, once decoded
    result,        \* handle(): result
    error,         \* handle(): error
    candidates,    \* query(): what determine_intent(command) has yielded
    resp,          \* what the handler has written to its socket
    eof,           \* the peer has gone and recv has returned b''
    raised_at      \* where the handler raised, "" when it has not

vars == <<engine, engine_lock, accepted, pc, legacy_mode, initial, length,
          message, result, error, candidates, resp, eof, raised_at>>

locals == <<legacy_mode, initial, length, message, result, error,
            candidates>>

Free == 0

\* The handler is inside "with self.server.engine_lock" of train().
TrainSection == {"new_engine", "reg_keywords", "reg_types", "reg_locations",
                 "reg_intent"}

\* The handler is inside "with self.server.engine_lock" of query().
ClassifySection == {"classify"}

\* The handler is inside read_bytes(count).
CountedRead == {"detect", "read_len", "read_payload"}

\* The handler has returned or raised.
Ended == {"done", "faulted"}

Init ==
    /\ engine = None
    /\ engine_lock = Free
    /\ accepted = 0
    /\ pc = [h \in Handlers |-> "idle"]
    /\ legacy_mode = [h \in Handlers |-> FALSE]
    /\ initial = [h \in Handlers |-> <<>>]
    /\ length = [h \in Handlers |-> 0]
    /\ message = [h \in Handlers |-> NoMsg]
    /\ result = [h \in Handlers |-> NoResult]
    /\ candidates = [h \in Handlers |-> <<>>]
    /\ error = [h \in Handlers |-> ""]
    /\ resp = [h \in Handlers |-> <<>>]
    /\ eof = [h \in Handlers |-> FALSE]
    /\ raised_at = [h \in Handlers |-> ""]

\* ------------------------------------------------------- handler steps

Goto(h, where) == pc' = [pc EXCEPT ![h] = where]

\* A handler that serves a session: after a message it reads the next one.
Return_KeepAlive(h) == /\ pc' = [pc EXCEPT ![h] = "detect"]
                       /\ UNCHANGED raised_at

\* handle() returns: the connection is closed.
Return(h) == /\ pc' = [pc EXCEPT ![h] = "done"]
             /\ UNCHANGED raised_at

\* An exception leaves handle(): socketserver reports it and the thread ends.
Raise(h, at) == /\ pc' = [pc EXCEPT ![h] = "faulted"]
                /\ raised_at' = [raised_at EXCEPT ![h] = at]

\* self.request.sendall(r)
Send(h, r) == resp' = [resp EXCEPT ![h] = Append(@, r)]

\* Python's "key in value" for a decoded JSON value: "raise" for a value that
\* is no container (TypeError).
PyIn(key, kind, has) ==
    IF kind \in {"obj", "arr", "str"}
    THEN (IF key \in has THEN "yes" ELSE "no")
    ELSE "raise"

\* The listener accepts a connection and starts handle() in a thread.
Accept(h) ==
    /\ pc[h] \in {"idle"} \cup Ended
    /\ accepted < MaxConns
    /\ accepted' = accepted + 1
    /\ pc' = [pc EXCEPT ![h] = "detect"]
    /\ legacy_mode' = [legacy_mode EXCEPT ![h] = FALSE]
    /\ initial' = [initial EXCEPT ![h] = <<>>]
    /\ length' = [length EXCEPT ![h] = 0]
    /\ message' = [message EXCEPT ![h] = NoMsg]
    /\ result' = [result EXCEPT ![h] = NoResult]
    /\ error' = [error EXCEPT ![h] = ""]
    /\ candidates' = [candidates EXCEPT ![h] = <<>>]
    /\ resp' = [resp EXCEPT ![h] = <<>>]
    /\ eof' = [eof EXCEPT ![h] = FALSE]
    /\ raised_at' = [raised_at EXCEPT ![h] = ""]
    /\ UNCHANGED <<engine, engine_lock>>

\* initial.decode() in ['t:', 'q:']
IsLegacyPrefix(s) == s \in {<<116, 58>>, <<113, 58>>}

\* initial = self.read_bytes(count=2); if initial.decode() in ['t:', 'q:']
Detect(h) ==
    /\ pc[h] = "detect"
    /\ ~eof[h]
    /\ \E p \in Prefixes :
        /\ initial' = [initial EXCEPT ![h] = p]
        /\ IF Utf8Decode(p) = DecodeError
           THEN Raise(h, "detect") /\ UNCHANGED legacy_mode
           ELSE IF IsLegacyPrefix(Utf8Decode(p))
                THEN /\ legacy_mode' = [legacy_mode EXCEPT ![h] = TRUE]
                     /\ Goto(h, "legacy_read")
                     /\ UNCHANGED raised_at
                ELSE /\ Goto(h, "read_len")
                     /\ UNCHANGED <<legacy_mode, raised_at>>
    /\ UNCHANGED <<engine, engine_lock, accepted, length, message, result,
                   error, candidates, resp, eof>>

\* parse_legacy_message(message): <<"raise">>, <<"none">> or <<"msg", m>>.
ParseLegacyMessage(bytes) ==
    LET m == Utf8Decode(bytes)
    IN  IF m = DecodeError THEN <<"raise">>
        ELSE IF m[1] = 116
             THEN LET parts == Split(From3(m), 124)
                  IN  IF Len(parts) < 3 THEN <<"none">>
                      ELSE <<"msg", Command("train",
                               TrainData(List(Split(parts[1], 44)),
                                         List(Split(parts[2], 44)),
                                         List(Split(parts[3], 44))))>>
             ELSE IF m[1] = 113
                  THEN <<"msg", Command("query", QueryData(From3(m)))>>
                  ELSE <<"none">>

\* handle() without the check of data for keywords, types and locations.
Route_NoKeyCheck(m) ==
    LET inCommand == PyIn("command", m.kind, m.has)
        inData == PyIn("data", m.kind, m.has)
    IN  IF inCommand = "raise" THEN "raise"
        ELSE IF inCommand = "no" \/ inData = "no" THEN "Invalid message."
        ELSE IF m.kind # "obj" THEN "raise"
        ELSE IF m.command = "train" THEN "train"
             ELSE IF m.command = "query" THEN "query"
                  ELSE "Invalid command."

\* Lines 203-245 up to the call of train() or query(): what handle() does
\* with a decoded message m.  "raise", "drop" (return without a response),
\* "train", "query", or the error a framed client is sent.
Route(m) ==
    LET d == m.data
        inCommand == PyIn("command", m.kind, m.has)
        inData == PyIn("data", m.kind, m.has)
    IN  IF inCommand = "raise" THEN "raise"
        ELSE IF inCommand = "no" \/ inData = "no" THEN "Invalid message."
        ELSE IF m.kind # "obj" THEN "raise"
        ELSE IF m.command = "train"
             THEN IF PyIn("keywords", d.kind, d.has) = "raise" THEN "raise"
                  ELSE IF \E k \in {"keywords", "types", "locations"} :
                              PyIn(k, d.kind, d.has) = "no"
                       THEN "Input data is invalid."
                       ELSE IF d.kind # "obj" THEN "raise" ELSE "train"
             ELSE IF m.command = "query" THEN "query"
                  ELSE "Invalid command."

\* handle() from "if 'command' not in message" to the call of train() or
\* query(), or to the return after a decode error, for the decoded message m.
Dispatch(h, m) ==
    /\ message' = [message EXCEPT ![h] = m]
    /\ LET to == Route(m)
       IN  IF to = "raise" THEN Raise(h, "dispatch") /\ UNCHANGED resp
           ELSE IF to \in {"train", "query"}
                THEN Goto(h, to) /\ UNCHANGED <<resp, raised_at>>
                ELSE /\ Return(h)
                     /\ IF legacy_mode[h] THEN UNCHANGED resp
                        ELSE Send(h, ErrorResponse(to))

\* message = self.parse_legacy_message(initial + self.read_bytes()), and
\* handle() up to the call of train() or query().
ReadLegacy(h) ==
    /\ pc[h] = "legacy_read"
    /\ \E body \in LegacyBodies(initial[h]) :
        LET parsed == ParseLegacyMessage(initial[h] \o body)
        IN  IF parsed[1] = "raise"
            THEN Raise(h, "legacy_read") /\ UNCHANGED <<message, resp>>
            ELSE IF parsed[1] = "none"
                 THEN Return(h) /\ UNCHANGED <<message, resp>>
                 ELSE Dispatch(h, parsed[2])
    /\ UNCHANGED <<engine, engine_lock, accepted, legacy_mode, initial,
                   length, result, error, candidates, eof>>

\* length = struct.unpack('>I', initial + self.read_bytes(count=2))[0]
ReadLen(h) ==
    /\ pc[h] = "read_len"
    /\ ~eof[h]
    /\ \E lo \in LoBytes(initial[h]) :
        length' = [length EXCEPT ![h] = Unpack(initial[h] \o lo)]
    /\ Goto(h, "read_payload")
    /\ UNCHANGED <<engine, engine_lock, accepted, legacy_mode, initial,
                   message, result, error, candidates, resp, eof,
                   raised_at>>

\* message = self.read_bytes(count=length); json.loads(message.decode()), and
\* handle() up to the call of train() or query().
ReadPayload(h) ==
    /\ pc[h] = "read_payload"
    /\ ~eof[h]
    /\ \E p \in FramedPayloads :
        /\ p.size = length[h]
        /\ IF p.valid
           THEN Dispatch(h, p.value)
           ELSE /\ Send(h, ErrorResponse("Failed to decode message."))
                /\ Return(h)
                /\ UNCHANGED message
    /\ UNCHANGED <<engine, engine_lock, accepted, legacy_mode, initial,
                   length, result, error, candidates, eof>>

\* The peer disconnects while read_bytes(count) still waits for bytes: recv
\* returns b'' and "while len(data) < count" goes round again.
PeerGone(h) ==
    /\ pc[h] \in CountedRead
    /\ ~eof[h]
    /\ eof' = [eof EXCEPT ![h] = TRUE]
    /\ UNCHANGED <<engine, engine_lock, accepted, pc, locals, resp, raised_at>>

\* data += self.request.recv(count - len(data)) with recv returning b''.
RecvNothing(h) ==
    /\ pc[h] \in CountedRead
    /\ eof[h]
    /\ UNCHANGED vars

\* A lock whose acquire never blocks.
CanAcquire_NoBlock(h) == TRUE

\* threading.Lock: acquire returns only when no thread holds the lock.
CanAcquire(h) == engine_lock = Free

\* A lock released at the end of the block only, not by an exception.
WithExit_HeldOnRaise(raised) == IF raised THEN engine_lock ELSE Free

\* A with block that reaches over the reply: the lock is kept when the block
\* ends without an exception.
WithExit_HeldOnReturn(raised) == IF raised THEN Free ELSE engine_lock

\* The lock when a "with self.server.engine_lock" block is left, by its end or
\* (raised) by an exception.
WithExit(raised) == Free

\* with self.server.engine_lock:     (train)
TrainAcquire(h) ==
    /\ pc[h] = "train"
    /\ CanAcquire(h)
    /\ engine_lock' = h
    /\ Goto(h, "new_engine")
    /\ UNCHANGED <<engine, accepted, locals, resp, eof, raised_at>>

\* train() registering into the engine it finds, when there is one.
FreshEngine_Reuse == IF engine = None THEN EmptyEngine ELSE engine

\* The value of IntentDeterminationEngine() assigned to self.server.engine.
FreshEngine == EmptyEngine

\* self.server.engine = IntentDeterminationEngine()
TrainNew(h) ==
    /\ pc[h] = "new_engine"
    /\ engine' = FreshEngine
    /\ Goto(h, "reg_keywords")
    /\ UNCHANGED <<engine_lock, accepted, locals, resp, eof, raised_at>>

\* One "for x in xs: self.server.engine.register_entity(x, type)" loop of
\* train(): a value that cannot be iterated raises and the with block
\* releases the lock.
RegisterLoop(h, at, xs, type, next) ==
    /\ pc[h] = at
    /\ IF xs.iter
       THEN /\ engine' = RegisterAll(engine, xs.items, type)
            /\ Goto(h, next)
            /\ UNCHANGED <<engine_lock, raised_at>>
       ELSE /\ Raise(h, at)
            /\ engine_lock' = WithExit(TRUE)
            /\ UNCHANGED engine
    /\ UNCHANGED <<accepted, locals, resp, eof>>

TrainKeywords(h) ==
    RegisterLoop(h, "reg_keywords", message[h].data.keywords, "Keyword",
                 "reg_types")

TrainTypes(h) ==
    RegisterLoop(h, "reg_types", message[h].data.types, "Type",
                 "reg_locations")

TrainLocations(h) ==
    RegisterLoop(h, "reg_locations", message[h].data.locations, "Location",
                 "reg_intent")

\* self.server.engine.register_intent_parser(intent), and the with block ends.
TrainIntent(h) ==
    /\ pc[h] = "reg_intent"
    /\ engine' = RegisterIntent(engine, Intent)
    /\ engine_lock' = WithExit(FALSE)
    /\ Goto(h, "train_reply")
    /\ UNCHANGED <<accepted, locals, resp, eof, raised_at>>

\* handle() answering a train in the framed form whatever the mode.
TrainResponse_AlwaysFramed(legacy) == SuccessResponse(NoResult)

\* The response of handle() after train() has returned.
TrainResponse(legacy) ==
    IF legacy THEN LegacyText("1") ELSE SuccessResponse(NoResult)

TrainReply(h) ==
    /\ pc[h] = "train_reply"
    /\ Send(h, TrainResponse(legacy_mode[h]))
    /\ Return(h)
    /\ UNCHANGED <<engine, engine_lock, accepted, locals, eof>>

\* query() without its check of self.server.engine.
EngineIsNone_Unchecked == FALSE

\* A test that also takes an engine without an intent parser for untrained.
EngineIsNone_OrUnbuilt == engine = None \/ engine.parsers = {}

\* self.server.engine is None
EngineIsNone == engine = None

\* if self.server.engine is None: return None, 'Intent parser was not trained.'
QueryCheck(h) ==
    /\ pc[h] = "query"
    /\ IF EngineIsNone
       THEN /\ result' = [result EXCEPT ![h] = NoResult]
            /\ error' = [error EXCEPT ![h] = NotTrainedError]
            /\ Goto(h, "query_reply")
       ELSE /\ Goto(h, "query_lock")
            /\ UNCHANGED <<result, error>>
    /\ UNCHANGED <<engine, engine_lock, accepted, legacy_mode, initial,
                   length, message, candidates, resp, eof, raised_at>>

\* with self.server.engine_lock:     (query)
QueryAcquire(h) ==
    /\ pc[h] = "query_lock"
    /\ CanAcquire(h)
    /\ engine_lock' = h
    /\ Goto(h, "classify")
    /\ UNCHANGED <<engine, accepted, locals, resp, eof, raised_at>>

\* The loop of query() over the candidates that determine_intent(command)
\* yields, and the with block ends.
QueryLoop(h, cands) ==
    LET found == FirstPositive(cands)
    IN  /\ candidates' = [candidates EXCEPT ![h] = cands]
        /\ result' = [result EXCEPT ![h] = found]
        /\ error' = [error EXCEPT ![h] =
                       IF found = NoResult THEN NoMatchError ELSE ""]
        /\ engine_lock' = WithExit(FALSE)
        /\ Goto(h, "query_reply")
        /\ UNCHANGED raised_at

\* self.server.engine.determine_intent(command) under the lock, then the loop.
\* determine_intent raises for a command that is no string (and for an engine
\* that is None).
Classify(h) ==
    /\ pc[h] = "classify"
    /\ IF message[h].data.kind # "str" \/ engine = None
       THEN /\ Raise(h, "classify")
            /\ engine_lock' = WithExit(TRUE)
            /\ UNCHANGED <<result, error, candidates>>
       ELSE QueryLoop(h, DetermineIntent(engine, message[h].data.text))
    /\ UNCHANGED <<engine, accepted, legacy_mode, initial, length, message,
                   resp, eof>>

\* The loop of query() for any sequence of candidates the engine may yield.
ClassifyRanked(h) ==
    /\ pc[h] = "classify"
    /\ \E cands \in RankedSeqs : QueryLoop(h, cands)
    /\ UNCHANGED <<engine, accepted, legacy_mode, initial, length, message,
                   resp, eof>>

\* handle() answering a successful framed query with send_success() alone.
QueryResponse_NoData(legacy, res, err) ==
    IF err # ""
    THEN (IF legacy THEN LegacyText("-1") ELSE ErrorResponse(err))
    ELSE (IF legacy THEN LegacyResult(res) ELSE SuccessResponse(NoResult))

\* handle() answering a query in the legacy form whatever the mode.
QueryResponse_LegacyForm(legacy, res, err) ==
    IF err # "" THEN LegacyText("-1") ELSE LegacyResult(res)

\* The response of handle() after query() has returned (result, error).
QueryResponse(legacy, res, err) ==
    IF err # ""
    THEN (IF legacy THEN LegacyText("-1") ELSE ErrorResponse(err))
    ELSE (IF legacy THEN LegacyResult(res) ELSE SuccessResponse(res))

QueryReply(h) ==
    /\ pc[h] = "query_reply"
    /\ Send(h, QueryResponse(legacy_mode[h], result[h], error[h]))
    /\ Return(h)
    /\ UNCHANGED <<engine, engine_lock, accepted, locals, eof>>

\* ------------------------------------------------------ specification

\* A step of handler h's thread.
Step(h) ==
    \/ Detect(h)
    \/ ReadLegacy(h)
    \/ ReadLen(h)
    \/ ReadPayload(h)
    \/ RecvNothing(h)
    \/ TrainAcquire(h)
    \/ TrainNew(h)
    \/ TrainKeywords(h)
    \/ TrainTypes(h)
    \/ TrainLocations(h)
    \/ TrainIntent(h)
    \/ TrainReply(h)
    \/ QueryCheck(h)
    \/ QueryAcquire(h)
    \/ Classify(h)
    \/ QueryReply(h)

Next == \E h \in Handlers : Accept(h) \/ PeerGone(h) \/ Step(h)

Spec == Init /\ [][Next]_vars

\* Every thread that can run is eventually scheduled.
FairSpec == Spec /\ \A h \in Handlers : WF_vars(Step(h))

\* A handler is inside the with block of query() on a trained engine, in
\* either mode.
LoopInit ==
    /\ engine = BuiltModel(TrainData(List(<<STR_a>>), List(<<STR_x>>),
                                      List(<<STR_p>>)))
    /\ \E h \in Handlers :
        /\ engine_lock = h
        /\ pc = [g \in Handlers |-> IF g = h THEN "classify" ELSE "idle"]
        /\ \E legacy \in BOOLEAN :
            /\ legacy_mode = [g \in Handlers |-> g = h /\ legacy]
            /\ initial = [g \in Handlers |->
                             IF g # h THEN <<>>
                             ELSE IF legacy THEN <<113, 58>> ELSE <<0, 0>>]
            /\ length = [g \in Handlers |->
                            IF g = h /\ ~legacy THEN 32 ELSE 0]
        /\ message = [g \in Handlers |->
                         IF g = h THEN Command("query", QueryData(STR_a_p))
                         ELSE NoMsg]
    /\ accepted = 1
    /\ result = [h \in Handlers |-> NoResult]
    /\ candidates = [h \in Handlers |-> <<>>]
    /\ error = [h \in Handlers |-> ""]
    /\ resp = [h \in Handlers |-> <<>>]
    /\ eof = [h \in Handlers |-> FALSE]
    /\ raised_at = [h \in Handlers |-> ""]

LoopNext == \E h \in Handlers : ClassifyRanked(h) \/ QueryReply(h)

\* query() from its loop to the reply, for every sequence of candidates.
LoopSpec == LoopInit /\ [][LoopNext]_vars

\* ------------------------------------------------------------ claims

\* The handlers inside a train or classify critical section.
InSection == {h \in Handlers : pc[h] \in TrainSection \cup ClassifySection}

\* C1: train() and the engine call of query() exclude each other and
\* themselves: at most one handler is inside a train or classify critical
\* section, and it is the one holding the lock.
C1_MutualExclusion ==
    /\ Cardinality(InSection) <= 1
    /\ \A h \in Handlers : h \in InSection <=> engine_lock = h

\* C1 witness: one handler trains while another waits for the lock to
\* classify.
C1_Contended ==
    \E g, h \in Handlers :
        /\ pc[g] \in TrainSection
        /\ pc[h] = "query_lock"

\* The train data of the model's inputs that train() runs to completion on.
CompletableTrainData ==
    {d \in {p.value.data : p \in FramedPayloads}
           \cup {ParseLegacyMessage(<<116, 58>> \o b)[2].data :
                   b \in {x \in LegacyBodies(<<116, 58>>) :
                            ParseLegacyMessage(<<116, 58>> \o x)[1] = "msg"}} :
        /\ d.kind = "obj"
        /\ d.has = {"keywords", "types", "locations"}
        /\ d.keywords.iter /\ d.types.iter /\ d.locations.iter}

\* The models that completed train calls leave.
CompletedModels == {BuiltModel(d) : d \in CompletableTrainData}

\* C2: the model a query classifies against is the result of some train call
\* that ran to completion, never a partially built one.
C2_QueryObservesCompletedModel ==
    \A h \in Handlers : pc[h] = "classify" => engine \in CompletedModels

\* No handler has called train() yet.
NoTrainCall ==
    /\ engine = None
    /\ \A h \in Handlers : pc[h] \notin {"train"} \cup TrainSection

\* C3: while no train call has been made, every query ends NotTrained: the
\* framed error "Intent parser was not trained.", the legacy "-1"; the engine
\* is not consulted (no query takes the lock).
C3_QueryBeforeTrain ==
    NoTrainCall =>
        /\ engine_lock = Free
        /\ \A h \in Handlers :
            /\ pc[h] \notin {"query_lock", "classify"}
            /\ pc[h] = "query_reply" =>
                   result[h] = NoResult /\ error[h] = NotTrainedError
            /\ (pc[h] = "done" /\ Route(message[h]) = "query") =>
                   resp[h] = << IF legacy_mode[h]
                                THEN LegacyText("-1")
                                ELSE ErrorResponse(NotTrainedError) >>

\* C3 witness: before any train call, a legacy query has been answered "-1"
\* and a framed query with the NotTrained error.
C3_BothAnswered ==
    /\ NoTrainCall
    /\ \E g, h \in Handlers :
        /\ pc[g] = "done" /\ legacy_mode[g] /\ resp[g] = <<LegacyText("-1")>>
        /\ pc[h] = "done" /\ ~legacy_mode[h]
        /\ resp[h] = <<ErrorResponse(NotTrainedError)>>

\* C4: every train call fully replaces the model: when train(B) completes
\* the engine is exactly the model built from B, whatever was trained before,
\* so a text classifies as it does against B alone.
C4_TrainReplaces ==
    [][\A h \in Handlers :
          (pc[h] = "reg_intent" /\ pc'[h] = "train_reply") =>
              engine' = BuiltModel(message[h].data)]_vars

\* C4 witness: a train on keyword "a" has completed, a later train on
\* keyword "b" has completed, and the engine holds "b" and not "a".
C4_Retrained ==
    \E g, h \in Handlers :
        /\ pc[g] = "done" /\ Route(message[g]) = "train"
        /\ <<STR_a, "Keyword">> \in BuiltModel(message[g].data).ents
        /\ pc[h] = "train_reply"
        /\ <<STR_b, "Keyword">> \in engine.ents
        /\ <<STR_a, "Keyword">> \notin engine.ents
        /\ FirstPositive(DetermineIntent(engine, STR_a_p)) = NoResult

\* C5: a framed connection whose complete message was received ends with
\* exactly one structured response, whatever the error.
C5_FramedAlwaysAnswered ==
    \A h \in Handlers :
        (pc[h] \in Ended /\ ~legacy_mode[h] /\ raised_at[h] # "detect") =>
            /\ Len(resp[h]) = 1
            /\ resp[h][1].envelope

\* C6: a legacy connection is written "1" after a train, "-1" after a query
\* that ended NotTrained or NoMatch, the bare result after a query that
\* matched, and nothing otherwise (a train message of fewer than 3 segments
\* included).
C6_LegacyResponses ==
    \A h \in Handlers :
        legacy_mode[h] =>
            IF pc[h] # "done" THEN resp[h] = <<>>
            ELSE IF message[h] = NoMsg THEN resp[h] = <<>>
            ELSE IF message[h].command = "train"
                 THEN resp[h] = <<LegacyText("1")>>
                 ELSE IF error[h] # ""
                      THEN /\ error[h] \in {NotTrainedError, NoMatchError}
                           /\ resp[h] = <<LegacyText("-1")>>
                      ELSE /\ result[h].confidence > 0
                           /\ resp[h] = <<LegacyResult(result[h])>>

\* C6 witness: a legacy train of fewer than 3 segments ended with no
\* response while a legacy query got its bare result.
C6_LegacyAnswered ==
    \E g, h \in Handlers :
        /\ legacy_mode[g] /\ pc[g] = "done" /\ initial[g] = <<116, 58>>
        /\ message[g] = NoMsg /\ resp[g] = <<>>
        /\ legacy_mode[h] /\ pc[h] = "done" /\ Len(resp[h]) = 1
        /\ ~resp[h][1].envelope /\ resp[h][1].data.confidence > 0

\* C7: a handler whose peer disconnects before the bytes it waits for have
\* arrived eventually ends.
C7_DisconnectEndsHandler ==
    \A h \in Handlers : eof[h] ~> pc[h] \in Ended

\* C8: a handler that raises does not keep the lock, the lock is held only
\* inside a critical section, and every handler waiting for the lock
\* eventually gets it and ends.
C8_FaultReleasesLock ==
    /\ [](\A h \in Handlers : engine_lock = h => pc[h] \in TrainSection
                                                     \cup ClassifySection)
    /\ \A h \in Handlers :
           pc[h] \in {"train", "query_lock"} ~> pc[h] \in Ended

\* C8 witness: a handler raised inside a critical section and another
\* handler is inside one now.
C8_AcquiredAfterFault ==
    \E g, h \in Handlers :
        /\ pc[g] = "faulted"
        /\ raised_at[g] \in TrainSection \cup ClassifySection
        /\ pc[h] \in TrainSection \cup ClassifySection

\* C9: a connection is legacy exactly when its first 2 bytes are "t:" or
\* "q:"; after any other 2 bytes the handler goes on to read the low half of
\* the length, of which those 2 bytes are the high half.
C9_DetectionExact ==
    \A h \in Handlers :
        Len(initial[h]) = 2 =>
            /\ legacy_mode[h] <=> initial[h] \in {<<116, 58>>, <<113, 58>>}
            /\ ~legacy_mode[h] =>
                  /\ raised_at[h] # "detect"
                  /\ pc[h] # "read_len" =>
                        length[h] \div 65536 = initial[h][1] * 256 + initial[h][2]

\* Handler h has assigned or changed server.engine for its request.
Wrote(h) ==
    \/ pc[h] \in TrainSection \ {"new_engine"}
    \/ pc[h] = "train_reply"
    \/ pc[h] = "done" /\ Route(message[h]) = "train"
    \/ pc[h] = "faulted" /\ raised_at[h] \in TrainSection

\* C10: a request that does not end in a success response has left the
\* engine as it was.
C10_FailureLeavesEngine ==
    \A h \in Handlers :
        (pc[h] \in Ended /\ (resp[h] = <<>> \/ resp[h][1].status = "error"))
            => ~Wrote(h)

\* The models left by completed train calls whose keywords and locations are
\* not empty.
TrainedModels ==
    {BuiltModel(d) : d \in {x \in CompletableTrainData :
                               x.keywords.items # <<>> /\ x.locations.items # <<>>}}

\* Some word of the text is registered in eng as an entity of the type.
Mentions(eng, text, type) == \E w \in Tokens(text) : <<w, type>> \in eng.ents

\* No word of the text is registered in eng.
MentionsNothing(eng, text) ==
    \A w \in Tokens(text) : \A e \in eng.ents : e[1] # w

\* C11: a framed query classified against the model of a completed train
\* call is answered with a success envelope carrying a result of confidence
\* > 0 when its text has a registered keyword and a registered location, and
\* with the error "Failed to parse command." when its text has no registered
\* entity.
C11_TrainedQuery ==
    [][\A h \in Handlers :
          /\ (/\ pc[h] = "classify" /\ pc'[h] = "query_reply"
              /\ ~legacy_mode[h]
              /\ engine \in TrainedModels)
                => LET text == message[h].data.text
                   IN  /\ (Mentions(engine, text, "Keyword")
                            /\ Mentions(engine, text, "Location"))
                              => result'[h].confidence > 0 /\ error'[h] = ""
                       /\ MentionsNothing(engine, text)
                              => /\ result'[h] = NoResult
                                 /\ error'[h] = "Failed to parse command."
          /\ (pc[h] = "query_reply" /\ pc'[h] = "done" /\ ~legacy_mode[h])
                => /\ Len(resp'[h]) = 1
                   /\ error[h] = ""
                         => /\ resp'[h][1].envelope
                            /\ resp'[h][1].status = "success"
                            /\ resp'[h][1].data = result[h]
                   /\ error[h] = "Failed to parse command."
                         => /\ resp'[h][1].envelope
                            /\ resp'[h][1].status = "error"
                            /\ resp'[h][1].error = error[h]]_vars

\* A framed query has been answered with a result of confidence > 0.
C11_Matched ==
    \E h \in Handlers :
        /\ pc[h] = "done" /\ ~legacy_mode[h]
        /\ Route(message[h]) = "query"
        /\ Mentions(engine, message[h].data.text, "Keyword")
        /\ Mentions(engine, message[h].data.text, "Location")
        /\ resp[h] = <<SuccessResponse(result[h])>>
        /\ result[h].confidence > 0

\* The handler is inside recv (read_bytes) or about to call sendall.
SocketIO == CountedRead \cup {"legacy_read", "train_reply", "query_reply"}

\* C12: a handler that is reading from or writing to its socket does not
\* hold the engine lock.
C12_NoLockAcrossIO ==
    \A h \in Handlers : pc[h] \in SocketIO => engine_lock # h

\* A handler that has left its with block is about to write its response
\* while another handler holds the lock.
C12_ReplyingWhileLocked ==
    \E g, h \in Handlers :
        /\ g # h
        /\ pc[h] \in {"train_reply", "query_reply"}
        /\ error[h] # NotTrainedError
        /\ engine_lock = g

\* The places where the next step of a handler reads or writes server.engine:
\* the test "engine is None" of query(), determine_intent, and all of train().
EngineAccess == {"query"} \cup ClassifySection \cup TrainSection

\* C13: every step of a handler that reads or replaces server.engine, the
\* test of query() for a missing model included, is taken while the handler
\* holds the engine lock.
C13_EngineAccessLocked ==
    [][\A h \in Handlers :
          (pc[h] \in EngineAccess /\ pc'[h] # pc[h]) => engine_lock = h]_vars

\* What handler h has read is no request: nothing was decoded (a framed
\* payload that is no JSON, a legacy train with fewer than three segments),
\* command or data is missing, the data of a train lacks keywords, types or
\* locations, or the command is neither train nor query.
DecodeFailed(h) ==
    LET m == message[h]
    IN  \/ m = NoMsg
        \/ m.has # {"command", "data"}
        \/ m.command = "train"
              /\ m.data.has # {"keywords", "types", "locations"}
        \/ m.command \notin {"train", "query"}

\* The handler is inside train() or query(), or has been.
EngineCall ==
    {"train", "query", "query_lock", "train_reply", "query_reply"}
        \cup TrainSection \cup ClassifySection

\* C14: a handler whose message fails decoding never calls train() or
\* query(): it does not take the engine lock and has not assigned or filled
\* server.engine.
C14_DecodeFailureSkipsEngine ==
    \A h \in Handlers :
        DecodeFailed(h) =>
            /\ pc[h] \notin EngineCall
            /\ engine_lock # h
            /\ raised_at[h] \notin TrainSection \cup ClassifySection
            /\ ~Wrote(h)
            /\ result[h] = NoResult /\ error[h] = "" /\ candidates[h] = <<>>

\* A framed train whose data has no keys was refused while another handler
\* was inside train().
C14_RefusedDuringTrain ==
    \E g, h \in Handlers :
        /\ g # h
        /\ pc[h] = "done" /\ ~legacy_mode[h]
        /\ message[h] # NoMsg
        /\ message[h].command = "train" /\ message[h].data.has = {}
        /\ resp[h] = <<ErrorResponse("Input data is invalid.")>>
        /\ pc[g] \in TrainSection /\ engine_lock = g

\* The error a framed client is to be sent for what handler h has read, ""
\* when it is a train or query request.
DecodeFailure(h) ==
    LET m == message[h]
    IN  IF m = NoMsg THEN "Failed to decode message."
        ELSE IF m.has # {"command", "data"} THEN "Invalid message."
        ELSE IF m.command = "train"
                  /\ m.data.has # {"keywords", "types", "locations"}
             THEN "Input data is invalid."
        ELSE IF m.command \notin {"train", "query"} THEN "Invalid command."
        ELSE ""

\* C15: a framed handler that has ended on a decode failure has written the
\* error envelope with the message of the first check that failed, and
\* nothing else.
C15_DecodeErrorMessages ==
    \A h \in Handlers :
        (/\ ~legacy_mode[h]
         /\ pc[h] \in Ended /\ raised_at[h] # "detect"
         /\ DecodeFailure(h) # "")
            => /\ Len(resp[h]) = 1
               /\ resp[h][1].envelope
               /\ resp[h][1].status = "error"
               /\ resp[h][1].error = DecodeFailure(h)

\* How far handle() has come on its connection.
Stage(p) ==
    CASE p = "idle" -> 0
      [] p = "detect" -> 1
      [] p \in {"legacy_read", "read_len"} -> 2
      [] p = "read_payload" -> 3
      [] p \in {"train", "query"} -> 4
      [] p \in {"new_engine", "query_lock"} -> 5
      [] p \in {"reg_keywords", "classify"} -> 6
      [] p = "reg_types" -> 7
      [] p = "reg_locations" -> 8
      [] p = "reg_intent" -> 9
      [] p \in {"train_reply", "query_reply"} -> 10
      [] p \in Ended -> 11

\* C16: on one connection a handler only moves forward, from reading its
\* message through at most one with block to at most one response, and has
\* returned once it has written; it reads again only for a newly accepted
\* connection.
C16_OneShot ==
    [][\A h \in Handlers :
          /\ pc'[h] # pc[h]
                => \/ Stage(pc'[h]) > Stage(pc[h])
                   \/ /\ pc[h] \in Ended /\ pc'[h] = "detect"
                      /\ accepted' = accepted + 1
                      /\ resp'[h] = <<>>
          /\ (engine_lock' = h /\ engine_lock # h)
                => pc[h] \in {"train", "query_lock"}
          /\ (resp'[h] # resp[h] /\ accepted' = accepted)
                => /\ resp[h] = <<>> /\ Len(resp'[h]) = 1
                   /\ pc'[h] = "done"]_vars

\* A handler has served a query on its connection and returned, and has
\* then served a second connection.
C16_ServedTwice ==
    \E h \in Handlers :
        /\ accepted = MaxConns
        /\ \A g \in Handlers \ {h} : pc[g] = "idle"
        /\ pc[h] = "done" /\ Len(resp[h]) = 1
        /\ Route(message[h]) = "query" /\ result[h].confidence > 0

\* C17: the loop of query() returns the first candidate, in the order the
\* engine yields them, whose confidence is > 0, and returns no result with
\* the error "Failed to parse command." when there is none.
C17_FirstPositive ==
    \A h \in Handlers :
        (/\ pc[h] \in {"query_reply", "done"}
         /\ message[h] # NoMsg /\ message[h].command = "query"
         /\ error[h] # NotTrainedError)
            => LET c == candidates[h]
                   pos == {i \in DOMAIN c : c[i].confidence > 0}
               IN  IF pos = {}
                   THEN /\ result[h] = NoResult
                        /\ error[h] = "Failed to parse command."
                   ELSE /\ \E i \in pos :
                            /\ \A j \in pos : i <= j
                            /\ result[h] = c[i]
                        /\ error[h] = ""

\* The loop has passed over a candidate of confidence <= 0 and returned the
\* one after it, leaving a later one of higher confidence alone.
C17_SkippedOne ==
    \E h \in Handlers :
        /\ pc[h] = "done"
        /\ Len(candidates[h]) = 3
        /\ candidates[h][1].confidence <= 0
        /\ candidates[h][2].confidence > 0
        /\ candidates[h][3].confidence > candidates[h][2].confidence
        /\ result[h] = candidates[h][2]
        /\ resp[h] = <<QueryResponse(legacy_mode[h], candidates[h][2], "")>>

\* C18: the mode of a connection is what its first two bytes say, and every
\* response follows it.  A framed handler writes status envelopes only:
\* success without data after a train, success with the result after a
\* query, or an error with its message.  A legacy handler never writes an
\* envelope.
C18_EncodingFollowsMode ==
    \A h \in Handlers :
        /\ legacy_mode[h] <=> initial[h] \in {<<116, 58>>, <<113, 58>>}
        /\ \A i \in DOMAIN resp[h] :
              LET r == resp[h][i]
              IN  IF legacy_mode[h]
                  THEN ~r.envelope /\ r.status = ""
                  ELSE /\ r.envelope
                       /\ r.status \in {"success", "error"}
                       /\ r.status = "error"
                             => r.error # "" /\ r.data = NoResult
                       /\ r.status = "success"
                             => /\ r.error = ""
                                /\ message[h].command \in {"train", "query"}
                                /\ message[h].command = "train"
                                      => r.data = NoResult
                                /\ message[h].command = "query"
                                      => /\ r.data = result[h]
                                         /\ r.data # NoResult

\* A framed query and a legacy query have both been answered with a result,
\* the first in an envelope and the second bare.
C18_BothEncodings ==
    \E g, h \in Handlers :
        /\ pc[g] = "done" /\ ~legacy_mode[g]
        /\ resp[g] = <<SuccessResponse(result[g])>>
        /\ result[g].confidence > 0
        /\ pc[h] = "done" /\ legacy_mode[h]
        /\ resp[h] = <<LegacyResult(result[h])>>
        /\ result[h].confidence > 0

\* C19: once a train call has assigned an engine, server.engine is never
\* None again, and a query that makes its test after that is never answered
\* "Intent parser was not trained.", also when the train call has faulted.
C19_NeverUntrained ==
    [][/\ engine # None => engine' # None
       /\ \A h \in Handlers :
             (engine # None /\ pc[h] = "query" /\ pc'[h] # "query")
                => /\ pc'[h] = "query_lock"
                   /\ error'[h] # NotTrainedError]_vars

\* A train call has faulted while filling its engine, and a query that came
\* after it has passed the test and been answered, not with NotTrained.
C19_QueryAfterFaultedTrain ==
    \E g, h \in Handlers :
        /\ pc[g] = "faulted" /\ raised_at[g] \in TrainSection
        /\ engine # None /\ engine.parsers = {}
        /\ pc[h] = "done" /\ message[h] # NoMsg
        /\ message[h].command = "query"
        /\ Len(resp[h]) = 1
        /\ error[h] = NoMatchError

====
